---- MODULE Spec2Model ----
(***************************************************************************)
(* Peridot: a flat file of fixed-size node slots (nodestore) with an       *)
(* intrusive LIFO free list whose head lives in a side file (freestore).   *)
(* Model of cmd/peridot/main.go.                                           *)
(*                                                                         *)
(* Files are modelled at byte granularity with the semantics of            *)
(* os.File.ReadAt / WriteAt / Stat: a file is its size in bytes plus its   *)
(* non-zero bytes (a sparse map), a read that runs past end of file fails, *)
(* a write past end of file extends the file with zero bytes.              *)
(*                                                                         *)
(* TLC integers are 32 bits wide, so the all-ones uint32 and the int64     *)
(* offsets id * nodeSize of the source do not fit.  A byte therefore takes *)
(* ByteBase values instead of 256; a 4-byte little-endian word then takes  *)
(* ByteBase^4 values and its all-ones value is ByteBase^4 - 1.  The layout *)
(* of a slot and all arithmetic are those of the source.                   *)
(***************************************************************************)
EXTENDS Integers, Sequences, FiniteSets, TLC

VARIABLES
    nodestore,  \* the file <store>.db
    freestore,  \* the file <store>_free.db
    hist,       \* the insert and delete commands run so far, with their outcomes
    scan,       \* what the last "read" command got from readStore, if it is still current
    got,        \* what the last call of readNode or of the slot codec returned
    pc,         \* per process: the next file operation of its command (interleaved runs)
    loc,        \* per process: the command and its local variables (interleaved runs)
    dir,        \* names of the files in the working directory
    handles,    \* every *os.File opened so far: its path and the Close calls it received
    stores,     \* main's stores slice
    phase       \* "running" until the exit command returns

storeVars == <<nodestore, freestore, hist, scan, got>>
concVars == <<pc, loc>>
cliVars == <<dir, handles, stores, phase>>
vars == <<nodestore, freestore, hist, scan, got, pc, loc, dir, handles, stores, phase>>

\* ------------------------------------------------------------- bounds
ByteBase == 4
MaxOps == 5
MaxId == 2
MaxOpenOps == 4
MaxWideOps == 5
TornLen == 5
MaxStores == 3
MaxReadOps == 3
MaxStepOps == 5
MaxFaultOps == 2

\* ---------------------------------------------------------- constants
\* const nodeSize = 72
nodeSize == 72
\* Value [64]byte
ValueSize == 64

\* The number of values of a uint32.
WordMod == ByteBase * ByteBase * ByteBase * ByteBase
\* ^uint32(0)
Sentinel == WordMod - 1

Max(a, b) == IF a >= b THEN a ELSE b

\* ------------------------------------------------------------- files
EmptyFile == [size |-> 0, data |-> [i \in {} |-> 0]]

ByteAt(f, i) == IF i \in DOMAIN f.data THEN f.data[i] ELSE 0

\* f.ReadAt(buf, off) with len(buf) = n: err # nil (io.EOF) unless all n
\* bytes lie inside the file.
ReadAt(f, n, off) ==
    IF off + n <= f.size
    THEN [err |-> FALSE, buf |-> [i \in 1 .. n |-> ByteAt(f, off + i - 1)]]
    ELSE [err |-> TRUE, buf |-> <<>>]

\* f.WriteAt(buf, off): the bytes of buf replace those at off.., the file
\* grows (zero-filled) when the write ends past its end.
WriteAt(f, buf, off) ==
    LET n == Len(buf)
        new(i) == IF i >= off /\ i < off + n THEN buf[i - off + 1] ELSE ByteAt(f, i)
        dom == {i \in (DOMAIN f.data) \cup (off .. (off + n - 1)) : new(i) # 0}
    IN [size |-> Max(f.size, off + n), data |-> [i \in dom |-> new(i)]]

\* f.Stat().Size()
StatSize(f) == f.size

\* ------------------------------------------------------ encoding/binary
\* binary.LittleEndian.PutUint32
PutUint32(v) ==
    << v % ByteBase,
       (v \div ByteBase) % ByteBase,
       (v \div (ByteBase * ByteBase)) % ByteBase,
       (v \div (ByteBase * ByteBase * ByteBase)) % ByteBase >>

\* binary.LittleEndian.Uint32
Uint32(b) ==
    b[1] + ByteBase * b[2] + ByteBase * ByteBase * b[3]
         + ByteBase * ByteBase * ByteBase * b[4]

\* copy(dst, src) into a zeroed destination of n bytes: the first
\* min(n, len(src)) bytes of src, the rest stays zero.
CopyInto(n, src) == [i \in 1 .. n |-> IF i <= Len(src) THEN src[i] ELSE 0]

\* ------------------------------------------------------------- values
\* A value is a string over characters that json.Marshal copies unescaped;
\* Quote is the byte of the double quote that json.Marshal puts around it.
Quote == ByteBase - 1
alice == <<1>>
bob == <<2>>
carol == <<1, 2>>
Values == {alice, bob, carol}

\* json.Marshal(value) for a string of unescaped characters
JsonMarshal(value) == <<Quote>> \o value \o <<Quote>>

\* var fixed [64]byte; copy(fixed[:], jsonVal)
FixedValue(value) == CopyInto(ValueSize, JsonMarshal(value))

\* -------------------------------------------------------------- nodes
ZeroValue == [i \in 1 .. ValueSize |-> 0]

\* internal.Node{}
ZeroNode == [ID |-> 0, Type |-> 0, InUse |-> 0, Value |-> ZeroValue]

\* Mutant of Serialize: one padding byte short, the payload one byte early.
Serialize_NoPadding(node) ==
    [i \in 1 .. (nodeSize - 1) |->
        IF i <= 4 THEN PutUint32(node.ID)[i]
        ELSE IF i = 5 THEN node.InUse
        ELSE IF i <= 7 THEN 0
        ELSE node.Value[i - 7]]

\* buf := make([]byte, nodeSize); PutUint32(buf[0:], ID); buf[4] = InUse;
\* copy(buf[8:], Value[:])
Serialize(node) ==
    [i \in 1 .. nodeSize |->
        IF i <= 4 THEN PutUint32(node.ID)[i]
        ELSE IF i = 5 THEN node.InUse
        ELSE IF i <= 8 THEN 0
        ELSE node.Value[i - 8]]

\* Mutant of Deserialize: in_use taken from the first padding byte.
Deserialize_InUseFromPadding(buf) ==
    [ID |-> Uint32(SubSeq(buf, 1, 4)), Type |-> 0, InUse |-> buf[6],
     Value |-> SubSeq(buf, 9, nodeSize)]

\* Node{ID: Uint32(buf[0:4]), InUse: buf[4]}; copy(node.Value[:], buf[8:72])
Deserialize(buf) ==
    [ID |-> Uint32(SubSeq(buf, 1, 4)), Type |-> 0, InUse |-> buf[5],
     Value |-> SubSeq(buf, 9, nodeSize)]

\* ---------------------------------------------------------- free list
\* Mutant of getFree: the read error is ignored and the zeroed buffer decoded.
getFree_ZeroOnError(f) ==
    LET r == ReadAt(f, 4, 0)
    IN IF r.err THEN Uint32(<<0, 0, 0, 0>>) ELSE Uint32(r.buf)

getFree(f) ==
    LET r == ReadAt(f, 4, 0)
    IN IF r.err THEN Sentinel ELSE Uint32(r.buf)

setFree(f, id) == WriteAt(f, PutUint32(id), 0)

\* ---------------------------------------------------------- writeNode
\* Mutant of AppendID: IDs counted from 1.
AppendID_FromOne(offset) == (offset \div nodeSize + 1) % WordMod

\* node.ID = uint32(offset / nodeSize)
AppendID(offset) == (offset \div nodeSize) % WordMod

\* nextFreeID := binary.LittleEndian.Uint32(buf[8:12])
NextFreeID(buf) == Uint32(SubSeq(buf, 9, 12))

\* node := internal.Node{InUse: 1}; node.Value = fixed; node.ID = id
NewNode(id, value) == [ID |-> id, Type |-> 0, InUse |-> 1, Value |-> FixedValue(value)]

\* The result carries the two files as the call leaves them, the error, and
\* what the call computed on its way: freeID, the assigned node.ID, and (on
\* the reuse path) the in_use byte of the slot it read to find the next link.
writeNode(ns, fs, value) ==
    LET freeID == getFree(fs)
    IN IF freeID # Sentinel
       THEN LET offset == freeID * nodeSize
                r == ReadAt(ns, nodeSize, offset)
            IN IF r.err
               THEN [err |-> TRUE, nodestore |-> ns, freestore |-> fs,
                     freeID |-> freeID, id |-> freeID, reuse |-> TRUE,
                     readInUse |-> -1]
               ELSE [err |-> FALSE,
                     nodestore |-> WriteAt(ns, Serialize(NewNode(freeID, value)), offset),
                     freestore |-> setFree(fs, NextFreeID(r.buf)),
                     freeID |-> freeID, id |-> freeID, reuse |-> TRUE,
                     readInUse |-> r.buf[5]]
       ELSE LET offset == StatSize(ns)
            IN [err |-> FALSE,
                nodestore |-> WriteAt(ns, Serialize(NewNode(AppendID(offset), value)), offset),
                freestore |-> fs,
                freeID |-> freeID, id |-> AppendID(offset), reuse |-> FALSE,
                readInUse |-> -1]

\* --------------------------------------------------------- deleteNode
\* Mutant of FreeNode: the in_use flag is left set.
FreeNode_StillInUse(id, currentHead) ==
    [ID |-> id, Type |-> 0, InUse |-> 1,
     Value |-> CopyInto(ValueSize, PutUint32(currentHead))]

\* var node internal.Node; node.ID = id; node.InUse = 0;
\* PutUint32(node.Value[0:], currentHead)
FreeNode(id, currentHead) ==
    [ID |-> id, Type |-> 0, InUse |-> 0,
     Value |-> CopyInto(ValueSize, PutUint32(currentHead))]

\* Mutant of deleteNode: the head is not set to the deleted ID.
deleteNode_NoSetFree(ns, fs, id) ==
    LET offset == id * nodeSize
        currentHead == getFree(fs)
    IN [err |-> FALSE,
        nodestore |-> WriteAt(ns, Serialize(FreeNode(id, currentHead)), offset),
        freestore |-> fs,
        currentHead |-> currentHead]

deleteNode(ns, fs, id) ==
    LET offset == id * nodeSize
        currentHead == getFree(fs)
    IN [err |-> FALSE,
        nodestore |-> WriteAt(ns, Serialize(FreeNode(id, currentHead)), offset),
        freestore |-> setFree(fs, id),
        currentHead |-> currentHead]

\* ----------------------------------------------------------- readNode
\* Mutant of readNode: a short read counts as a read, the rest of the
\* buffer staying zero.
readNode_ShortOk(f, id) ==
    LET offset == id * nodeSize
        buf == [i \in 1 .. nodeSize |-> ByteAt(f, offset + i - 1)]
    IN IF offset < f.size THEN [err |-> FALSE, node |-> Deserialize(buf)]
       ELSE [err |-> TRUE, node |-> ZeroNode]

\* buf := make([]byte, nodeSize); _, err := f.ReadAt(buf, int64(id)*nodeSize);
\* if err != nil { return internal.Node{}, err }
readNode(f, id) ==
    LET r == ReadAt(f, nodeSize, id * nodeSize)
    IN IF r.err THEN [err |-> TRUE, node |-> ZeroNode]
       ELSE [err |-> FALSE, node |-> Deserialize(r.buf)]

\* ---------------------------------------------------------- readStore
\* for i := 0; ; i++ { ReadAt; if err break; append }
RECURSIVE readLoop(_, _, _)
readLoop(f, i, nodes) ==
    LET r == ReadAt(f, nodeSize, i * nodeSize)
    IN IF r.err THEN nodes
       ELSE readLoop(f, i + 1, Append(nodes, Deserialize(r.buf)))

\* Mutant of readStore: the loop starts at slot 1.
readStore_FromOne(f) == readLoop(f, 1, <<>>)

readStore(f) == readLoop(f, 0, <<>>)

\* comReadAll prints the nodes with InUse == 1, in the order readStore gives
RECURSIVE Occupied(_)
Occupied(nodes) ==
    IF nodes = <<>> THEN <<>>
    ELSE IF Head(nodes).InUse = 1 THEN <<Head(nodes)>> \o Occupied(Tail(nodes))
    ELSE Occupied(Tail(nodes))

\* ------------------------------------------------------------ history
\* One entry per insert or delete command, with what the command saw and
\* returned: size is the size of nodestore before the command, head the
\* free-list head it read, id the assigned (insert) or given (delete) ID,
\* inuse the in_use byte of the slot at id as the command found it (-1 when
\* it read no such slot).
SlotCount(f) == f.size \div nodeSize

InUseAt(f, id) ==
    LET r == readNode(f, id) IN IF r.err THEN -1 ELSE r.node.InUse

NoScan == [valid |-> FALSE, nodes |-> <<>>]

NoGot == [op |-> "none"]

\* ------------------------------------------------------------ actions
\* case "insert": comInsert -> writeNode
Insert(value, max) ==
    /\ Len(hist) < max
    /\ \E w \in {writeNode(nodestore, freestore, value)} :
          /\ nodestore' = w.nodestore
          /\ freestore' = w.freestore
          /\ hist' = Append(hist,
                [op |-> "insert", value |-> value, id |-> w.id, err |-> w.err,
                 head |-> w.freeID, size |-> nodestore.size,
                 inuse |-> w.readInUse, reuse |-> w.reuse])
    /\ scan' = NoScan
    /\ got' = NoGot
    /\ UNCHANGED <<concVars, cliVars>>

\* case "delete": comDelete -> deleteNode
Delete(id, max) ==
    /\ Len(hist) < max
    /\ \E d \in {deleteNode(nodestore, freestore, id)} :
          /\ nodestore' = d.nodestore
          /\ freestore' = d.freestore
          /\ hist' = Append(hist,
                [op |-> "delete", value |-> <<>>, id |-> id, err |-> d.err,
                 head |-> d.currentHead, size |-> nodestore.size,
                 inuse |-> InUseAt(nodestore, id), reuse |-> FALSE])
    /\ scan' = NoScan
    /\ got' = NoGot
    /\ UNCHANGED <<concVars, cliVars>>

\* case "read": comReadAll -> readStore
ReadAll ==
    /\ scan' = [valid |-> TRUE, nodes |-> readStore(nodestore)]
    /\ got' = NoGot
    /\ UNCHANGED <<nodestore, freestore, hist, concVars, cliVars>>

\* What the variables of the other specifications hold while unused.
IdleConc == pc = <<>> /\ loc = <<>>
IdleCli == dir = {} /\ handles = <<>> /\ stores = <<>> /\ phase = "running"

\* createStore on a name with no files yet: both files exist and are empty
Init ==
    /\ nodestore = EmptyFile
    /\ freestore = EmptyFile
    /\ hist = <<>>
    /\ scan = NoScan
    /\ got = NoGot
    /\ IdleConc
    /\ IdleCli

DelIds == 0 .. MaxId

Next ==
    \/ \E value \in Values : Insert(value, MaxOps)
    \/ \E id \in DelIds : Delete(id, MaxOps)
    \/ ReadAll

Spec == Init /\ [][Next]_vars

\* ------------------------------------------- stores opened from disk
\* openStore opens whatever the two files hold.  The seeds: a store two
\* inserts made, the same store after a write that stopped TornLen bytes
\* into the third slot, and a head file cut short of its 4 bytes.
SeedTwo == writeNode(writeNode(EmptyFile, EmptyFile, alice).nodestore, EmptyFile, bob).nodestore

SeedTorn == WriteAt(SeedTwo, SubSeq(Serialize(NewNode(2, carol)), 1, TornLen), SeedTwo.size)

ShortHead == WriteAt(EmptyFile, <<1, 0>>, 0)

SeedNodes == {EmptyFile, SeedTwo, SeedTorn}
SeedFree == {EmptyFile, ShortHead}

InitOpen ==
    /\ nodestore \in SeedNodes
    /\ freestore \in SeedFree
    /\ hist = <<>>
    /\ scan = NoScan
    /\ got = NoGot
    /\ IdleConc
    /\ IdleCli

OpenValues == {alice, bob}

NextOpen ==
    \/ \E value \in OpenValues : Insert(value, MaxOpenOps)
    \/ \E id \in DelIds : Delete(id, MaxOpenOps)
    \/ ReadAll

SpecOpen == InitOpen /\ [][NextOpen]_vars

\* ------------------------------------------------ the whole ID range
\* The delete command takes any uint32: here the IDs at the top of the
\* range, the all-ones value among them.
WideIds == {0, Sentinel - 1, Sentinel}

NextWide ==
    \/ Insert(alice, MaxWideOps)
    \/ \E id \in WideIds : Delete(id, MaxWideOps)

SpecWide == Init /\ [][NextWide]_vars

\* ------------------------------------------------- reads of one slot
\* readNode on the stores openStore may find, at IDs inside the file, at
\* its end, beyond it, and at the all-ones ID.
ReadNode(id) ==
    /\ \E r \in {readNode(nodestore, id)} :
          got' = [op |-> "readNode", id |-> id, err |-> r.err, node |-> r.node]
    /\ scan' = NoScan
    /\ UNCHANGED <<nodestore, freestore, hist, concVars, cliVars>>

ReadIds == (0 .. (MaxId + 1)) \cup {Sentinel}

NextRead ==
    \/ \E value \in OpenValues : Insert(value, MaxReadOps)
    \/ \E id \in DelIds : Delete(id, MaxReadOps)
    \/ \E id \in ReadIds : ReadNode(id)

SpecRead == InitOpen /\ [][NextRead]_vars

\* ------------------------------------------------------ the slot codec
\* The encoding of a node as writeNode and deleteNode build it, decoded as
\* readNode and readStore decode it, for IDs over the uint32 range, every
\* in_use byte, and values from the empty string up to one whose JSON text
\* is longer than the payload.
FitValue == [i \in 1 .. (ValueSize - 2) |-> 1 + (i % 2)]
LongValue == [i \in 1 .. ValueSize |-> 1 + (i % 2)]
CodecValues == {<< >>, alice, bob, carol, FitValue, LongValue}
CodecIds == {0, 1, ByteBase, Sentinel - 1, Sentinel}

Codec(id, inuse, value) ==
    /\ \E node \in {[ID |-> id, Type |-> 0, InUse |-> inuse, Value |-> FixedValue(value)]} :
          got' = [op |-> "codec", value |-> value, json |-> JsonMarshal(value),
                  node |-> node, buf |-> Serialize(node),
                  back |-> Deserialize(Serialize(node))]
    /\ UNCHANGED <<nodestore, freestore, hist, scan, concVars, cliVars>>

NextCodec ==
    \E id \in CodecIds, inuse \in 0 .. (ByteBase - 1), value \in CodecValues :
        Codec(id, inuse, value)

SpecCodec == Init /\ [][NextCodec]_vars

\* --------------------------------------------- interleaved commands
\* Two commands on one store, interleaved at their file reads and writes.
\* Process 1 inserts alice or deletes, process 2 inserts bob or deletes;
\* loc[p] holds the command and the local variables of writeNode/deleteNode.
Procs == {1, 2}
ConcIds == {0, 1}

ValueOf(p) == IF p = 1 THEN alice ELSE bob

Command(p) ==
    {[op |-> "insert", value |-> ValueOf(p), id |-> 0, freeID |-> 0,
      nextFreeID |-> 0, offset |-> 0, err |-> FALSE]}
    \cup {[op |-> "delete", value |-> <<>>, id |-> i, freeID |-> 0,
           nextFreeID |-> 0, offset |-> i * nodeSize, err |-> FALSE] : i \in ConcIds}

\* A store with slot 0 freed and slot 1 occupied.
SeedFreed == deleteNode(SeedTwo, EmptyFile, 0)

ConcSeeds ==
    {[nodestore |-> EmptyFile, freestore |-> EmptyFile],
     [nodestore |-> SeedTwo, freestore |-> EmptyFile],
     [nodestore |-> SeedFreed.nodestore, freestore |-> SeedFreed.freestore]}

InitConc ==
    /\ \E seed \in ConcSeeds : nodestore = seed.nodestore /\ freestore = seed.freestore
    /\ hist = <<>>
    /\ scan = NoScan
    /\ got = NoGot
    /\ pc = [p \in Procs |-> "start"]
    /\ loc \in [Procs -> UNION {Command(p) : p \in Procs}]
    /\ \A p \in Procs : loc[p] \in Command(p)
    /\ IdleCli

\* writeNode: freeID, err := getFree(freestore)
writeNode_getFree(p) ==
    /\ pc[p] = "start" /\ loc[p].op = "insert"
    /\ \E freeID \in {getFree(freestore)} :
          /\ loc' = [loc EXCEPT ![p].freeID = freeID]
          /\ pc' = [pc EXCEPT ![p] = IF freeID # Sentinel THEN "read" ELSE "stat"]
    /\ UNCHANGED <<storeVars, cliVars>>

\* writeNode: offset, node.ID = freeID; nodestore.ReadAt(buf, offset)
writeNode_ReadAt(p) ==
    /\ pc[p] = "read"
    /\ \E r \in {ReadAt(nodestore, nodeSize, loc[p].freeID * nodeSize)} :
          IF r.err
          THEN /\ loc' = [loc EXCEPT ![p].err = TRUE]
               /\ pc' = [pc EXCEPT ![p] = "done"]
          ELSE /\ loc' = [loc EXCEPT ![p].offset = loc[p].freeID * nodeSize,
                                     ![p].id = loc[p].freeID,
                                     ![p].nextFreeID = NextFreeID(r.buf)]
               /\ pc' = [pc EXCEPT ![p] = "sethead"]
    /\ UNCHANGED <<storeVars, cliVars>>

\* Mutant of writeNode_setFree: the head is written back as it was read,
\* not advanced to the next link.
writeNode_setFree_SameHead(p) ==
    /\ pc[p] = "sethead"
    /\ freestore' = setFree(freestore, loc[p].freeID)
    /\ pc' = [pc EXCEPT ![p] = "write"]
    /\ UNCHANGED <<nodestore, hist, scan, got, loc, cliVars>>

\* writeNode: setFree(freestore, nextFreeID)
writeNode_setFree(p) ==
    /\ pc[p] = "sethead"
    /\ freestore' = setFree(freestore, loc[p].nextFreeID)
    /\ pc' = [pc EXCEPT ![p] = "write"]
    /\ UNCHANGED <<nodestore, hist, scan, got, loc, cliVars>>

\* writeNode: fi := nodestore.Stat(); offset = fi.Size(); node.ID = ...
writeNode_Stat(p) ==
    /\ pc[p] = "stat"
    /\ loc' = [loc EXCEPT ![p].offset = StatSize(nodestore),
                          ![p].id = AppendID(StatSize(nodestore))]
    /\ pc' = [pc EXCEPT ![p] = "write"]
    /\ UNCHANGED <<storeVars, cliVars>>

\* writeNode: nodestore.WriteAt(buf, offset)
writeNode_WriteAt(p) ==
    /\ pc[p] = "write"
    /\ nodestore' = WriteAt(nodestore, Serialize(NewNode(loc[p].id, loc[p].value)), loc[p].offset)
    /\ pc' = [pc EXCEPT ![p] = "done"]
    /\ UNCHANGED <<freestore, hist, scan, got, loc, cliVars>>

\* Mutant of deleteNode_getFree: the head is set to the deleted ID at once,
\* before the slot is written.
deleteNode_getFree_HeadFirst(p) ==
    /\ pc[p] = "start" /\ loc[p].op = "delete"
    /\ loc' = [loc EXCEPT ![p].freeID = getFree(freestore)]
    /\ freestore' = setFree(freestore, loc[p].id)
    /\ pc' = [pc EXCEPT ![p] = "dwrite"]
    /\ UNCHANGED <<nodestore, hist, scan, got, cliVars>>

\* deleteNode: currentHead, err := getFree(freestore)
deleteNode_getFree(p) ==
    /\ pc[p] = "start" /\ loc[p].op = "delete"
    /\ loc' = [loc EXCEPT ![p].freeID = getFree(freestore)]
    /\ pc' = [pc EXCEPT ![p] = "dwrite"]
    /\ UNCHANGED <<storeVars, cliVars>>

\* deleteNode: nodestore.WriteAt(buf, offset)
deleteNode_WriteAt(p) ==
    /\ pc[p] = "dwrite"
    /\ nodestore' = WriteAt(nodestore, Serialize(FreeNode(loc[p].id, loc[p].freeID)), loc[p].offset)
    /\ pc' = [pc EXCEPT ![p] = "dsethead"]
    /\ UNCHANGED <<freestore, hist, scan, got, loc, cliVars>>

\* deleteNode: return setFree(freestore, id)
deleteNode_setFree(p) ==
    /\ pc[p] = "dsethead"
    /\ freestore' = setFree(freestore, loc[p].id)
    /\ pc' = [pc EXCEPT ![p] = "done"]
    /\ UNCHANGED <<nodestore, hist, scan, got, loc, cliVars>>

NextConc ==
    \E p \in Procs :
        \/ writeNode_getFree(p)
        \/ writeNode_ReadAt(p)
        \/ writeNode_setFree(p)
        \/ writeNode_Stat(p)
        \/ writeNode_WriteAt(p)
        \/ deleteNode_getFree(p)
        \/ deleteNode_WriteAt(p)
        \/ deleteNode_setFree(p)

SpecConc == InitConc /\ [][NextConc]_vars

\* ------------------------------------------------ failing file calls
\* A command during which one file call returns an error.  fault names the
\* call ("none": no call fails; a call the command does not reach: none
\* either).  The stores are those of the interleaved runs.  A WriteAt that fails may have written nothing or a prefix of
\* its buffer, k bytes of it.  A failed read of the head is not an error for
\* getFree: it returns ^uint32(0), nil.
Faults == {"none", "getFree", "ReadAt", "setFree", "Stat", "WriteAt"}

FailedWriteAt(f, buf, off, k) ==
    IF k = 0 THEN f ELSE WriteAt(f, SubSeq(buf, 1, k), off)

\* The prefix lengths tried: of a slot write, of a head write.
SlotPrefix == {0, TornLen}
HeadPrefix(k) == IF k = 0 THEN 0 ELSE 1

writeNodeIO(ns, fs, value, fault, k) ==
    LET freeID == IF fault = "getFree" THEN Sentinel ELSE getFree(fs)
        res(err, ns2, fs2, id, reuse, inuse) ==
            [err |-> err, nodestore |-> ns2, freestore |-> fs2, freeID |-> freeID,
             id |-> id, reuse |-> reuse, readInUse |-> inuse]
    IN IF freeID # Sentinel
       THEN LET offset == freeID * nodeSize
                r == IF fault = "ReadAt" THEN [err |-> TRUE, buf |-> <<>>]
                     ELSE ReadAt(ns, nodeSize, offset)
                buf == Serialize(NewNode(freeID, value))
            IN IF r.err THEN res(TRUE, ns, fs, freeID, TRUE, -1)
               ELSE IF fault = "setFree"
               THEN res(TRUE, ns,
                        FailedWriteAt(fs, PutUint32(NextFreeID(r.buf)), 0, HeadPrefix(k)),
                        freeID, TRUE, r.buf[5])
               ELSE IF fault = "WriteAt"
               THEN res(TRUE, FailedWriteAt(ns, buf, offset, k),
                        setFree(fs, NextFreeID(r.buf)), freeID, TRUE, r.buf[5])
               ELSE res(FALSE, WriteAt(ns, buf, offset),
                        setFree(fs, NextFreeID(r.buf)), freeID, TRUE, r.buf[5])
       ELSE LET offset == StatSize(ns)
                buf == Serialize(NewNode(AppendID(offset), value))
            IN IF fault = "Stat" THEN res(TRUE, ns, fs, 0, FALSE, -1)
               ELSE IF fault = "WriteAt"
               THEN res(TRUE, FailedWriteAt(ns, buf, offset, k), fs,
                        AppendID(offset), FALSE, -1)
               ELSE res(FALSE, WriteAt(ns, buf, offset), fs, AppendID(offset), FALSE, -1)

\* Mutant of deleteNodeIO: the error of the slot write is returned only
\* after the head has been set.
deleteNodeIO_HeadAnyway(ns, fs, id, fault, k) ==
    LET offset == id * nodeSize
        currentHead == IF fault = "getFree" THEN Sentinel ELSE getFree(fs)
        buf == Serialize(FreeNode(id, currentHead))
    IN IF fault = "WriteAt"
       THEN [err |-> TRUE, nodestore |-> FailedWriteAt(ns, buf, offset, k),
             freestore |-> setFree(fs, id), currentHead |-> currentHead]
       ELSE IF fault = "setFree"
       THEN [err |-> TRUE, nodestore |-> WriteAt(ns, buf, offset),
             freestore |-> FailedWriteAt(fs, PutUint32(id), 0, HeadPrefix(k)),
             currentHead |-> currentHead]
       ELSE [err |-> FALSE, nodestore |-> WriteAt(ns, buf, offset),
             freestore |-> setFree(fs, id), currentHead |-> currentHead]

deleteNodeIO(ns, fs, id, fault, k) ==
    LET offset == id * nodeSize
        currentHead == IF fault = "getFree" THEN Sentinel ELSE getFree(fs)
        buf == Serialize(FreeNode(id, currentHead))
    IN IF fault = "WriteAt"
       THEN [err |-> TRUE, nodestore |-> FailedWriteAt(ns, buf, offset, k),
             freestore |-> fs, currentHead |-> currentHead]
       ELSE IF fault = "setFree"
       THEN [err |-> TRUE, nodestore |-> WriteAt(ns, buf, offset),
             freestore |-> FailedWriteAt(fs, PutUint32(id), 0, HeadPrefix(k)),
             currentHead |-> currentHead]
       ELSE [err |-> FALSE, nodestore |-> WriteAt(ns, buf, offset),
             freestore |-> setFree(fs, id), currentHead |-> currentHead]

\* case "insert", with the fault
InsertIO(value, fault, k) ==
    /\ Len(hist) < MaxFaultOps
    /\ \E w \in {writeNodeIO(nodestore, freestore, value, fault, k)} :
          /\ nodestore' = w.nodestore
          /\ freestore' = w.freestore
          /\ hist' = Append(hist,
                [op |-> "insert", value |-> value, id |-> w.id, err |-> w.err,
                 head |-> w.freeID, size |-> nodestore.size,
                 inuse |-> w.readInUse, reuse |-> w.reuse, fault |-> fault])
    /\ scan' = NoScan
    /\ got' = NoGot
    /\ UNCHANGED <<concVars, cliVars>>

\* case "delete", with the fault
DeleteIO(id, fault, k) ==
    /\ Len(hist) < MaxFaultOps
    /\ \E d \in {deleteNodeIO(nodestore, freestore, id, fault, k)} :
          /\ nodestore' = d.nodestore
          /\ freestore' = d.freestore
          /\ hist' = Append(hist,
                [op |-> "delete", value |-> <<>>, id |-> id, err |-> d.err,
                 head |-> d.currentHead, size |-> nodestore.size,
                 inuse |-> InUseAt(nodestore, id), reuse |-> FALSE, fault |-> fault])
    /\ scan' = NoScan
    /\ got' = NoGot
    /\ UNCHANGED <<concVars, cliVars>>

InitFault ==
    /\ \E seed \in ConcSeeds : nodestore = seed.nodestore /\ freestore = seed.freestore
    /\ hist = <<>>
    /\ scan = NoScan
    /\ got = NoGot
    /\ IdleConc
    /\ IdleCli

NextFault ==
    \/ \E fault \in Faults, k \in SlotPrefix : InsertIO(alice, fault, k)
    \/ \E id \in ConcIds, fault \in Faults, k \in SlotPrefix : DeleteIO(id, fault, k)

SpecFault == InitFault /\ [][NextFault]_vars

\* ------------------------------------- one command loop, step by step
\* The commands of one command loop run one after the other, each as the
\* sequence of its file reads and writes: every state is a point at which
\* the run may stop.  hist gets an entry when a command begins, with what
\* the command finds: the head, the size, the in_use byte of the slot.
NoCommand ==
    [op |-> "none", value |-> <<>>, id |-> 0, freeID |-> 0,
     nextFreeID |-> 0, offset |-> 0, err |-> FALSE]

InitStep ==
    /\ nodestore = EmptyFile
    /\ freestore = EmptyFile
    /\ hist = <<>>
    /\ scan = NoScan
    /\ got = NoGot
    /\ pc = <<"done">>
    /\ loc = <<NoCommand>>
    /\ IdleCli

Begin(cmd) ==
    /\ pc[1] = "done"
    /\ Len(hist) < MaxStepOps
    /\ pc' = [pc EXCEPT ![1] = "start"]
    /\ loc' = [loc EXCEPT ![1] = cmd]
    /\ hist' = Append(hist,
          [op |-> cmd.op, value |-> cmd.value, id |-> cmd.id, err |-> FALSE,
           head |-> getFree(freestore), size |-> nodestore.size,
           inuse |-> IF cmd.op = "delete" THEN InUseAt(nodestore, cmd.id) ELSE -1,
           reuse |-> cmd.op = "insert" /\ getFree(freestore) # Sentinel])
    /\ UNCHANGED <<nodestore, freestore, scan, got, cliVars>>

NextStep ==
    \/ \E cmd \in UNION {Command(p) : p \in Procs} : Begin(cmd)
    \/ writeNode_getFree(1)
    \/ writeNode_ReadAt(1)
    \/ writeNode_setFree(1)
    \/ writeNode_Stat(1)
    \/ writeNode_WriteAt(1)
    \/ deleteNode_getFree(1)
    \/ deleteNode_WriteAt(1)
    \/ deleteNode_setFree(1)

SpecStep == InitStep /\ [][NextStep]_vars

\* ------------------------------------------------ the command loop
\* A path is <<name, suffix>>: name + suffix in the source.
Names == <<"g", "h">>

Path(name, suffix) == <<name, suffix>>

\* What the working directory may hold when the program starts.
DirSeeds ==
    {{},
     {Path("g", ".db")},
     {Path("g", ".db"), Path("g", "_free.db")},
     {Path("g", ".db"), Path("g", "_free.db"), Path("g", ""), Path("g", "_free")},
     {Path("g", ".db"), Path("g", "_free.db"), Path("h", ".db"), Path("h", "_free.db"),
      Path("h", ""), Path("h", "_free")}}

\* os.OpenFile(path, flags): a new *os.File, unless the file is missing and
\* O_CREATE is not given.
CanOpen(d, path, create) == create \/ path \in d

Opened(hs, path) == Append(hs, [path |-> path, closes |-> 0])

\* f.Close() on handle h
Closed(hs, h) == [hs EXCEPT ![h].closes = @ + 1]

\* openStore / createStore: the two handles, or an error; a handle opened
\* before the error stays open.
openBoth(hs, d, name, create) ==
    IF ~CanOpen(d, Path(name, ".db"), create)
    THEN [err |-> TRUE, handles |-> hs, dir |-> d, nodestore |-> 0, freestore |-> 0]
    ELSE LET hs1 == Opened(hs, Path(name, ".db"))
             d1 == d \cup {Path(name, ".db")}
         IN IF ~CanOpen(d1, Path(name, "_free.db"), create)
            THEN [err |-> TRUE, handles |-> hs1, dir |-> d1, nodestore |-> 0, freestore |-> 0]
            ELSE [err |-> FALSE,
                  handles |-> Opened(hs1, Path(name, "_free.db")),
                  dir |-> d1 \cup {Path(name, "_free.db")},
                  nodestore |-> Len(hs1), freestore |-> Len(hs1) + 1]

\* main, before the command loop: comOpen for every <name>.db in the
\* directory, in directory order.
RECURSIVE openAll(_, _, _, _)
openAll(hs, d, ss, i) ==
    IF i > Len(Names) THEN [handles |-> hs, stores |-> ss]
    ELSE IF Path(Names[i], ".db") \notin d THEN openAll(hs, d, ss, i + 1)
    ELSE LET o == openBoth(hs, d, Names[i], FALSE)
         IN IF o.err THEN openAll(o.handles, d, ss, i + 1)
            ELSE openAll(o.handles, d,
                         Append(ss, [name |-> Names[i], nodestore |-> o.nodestore,
                                     freestore |-> o.freestore]), i + 1)

\* comClose(storename); nodeCloseFails: nodestore.Close() returns an error.
comClose(hs, d, storename, nodeCloseFails) ==
    IF ~CanOpen(d, Path(storename, ""), FALSE) THEN [err |-> TRUE, handles |-> hs]
    ELSE LET hs1 == Opened(hs, Path(storename, ""))
             n == Len(hs1)
         IN IF ~CanOpen(d, Path(storename, "_free"), FALSE)
            \* return; deferred nodestore.Close()
            THEN [err |-> TRUE, handles |-> Closed(hs1, n)]
            ELSE LET hs2 == Opened(hs1, Path(storename, "_free"))
                     f == n + 1
                 IN IF nodeCloseFails
                    \* nodestore.Close() fails; deferred freestore.Close(), nodestore.Close()
                    THEN [err |-> TRUE,
                          handles |-> Closed(Closed(Closed(hs2, n), f), n)]
                    \* both Close calls, then the two deferred ones
                    ELSE [err |-> FALSE,
                          handles |-> Closed(Closed(Closed(Closed(hs2, n), f), f), n)]

\* case "exit": for _, store := range stores { comClose(store.name) }
RECURSIVE closeAll(_, _, _, _, _)
closeAll(hs, d, ss, i, fails) ==
    IF i > Len(ss) THEN hs
    ELSE closeAll(comClose(hs, d, ss[i].name, fails[i]).handles, d, ss, i + 1, fails)

InitCli ==
    /\ nodestore = EmptyFile
    /\ freestore = EmptyFile
    /\ hist = <<>>
    /\ scan = NoScan
    /\ got = NoGot
    /\ IdleConc
    /\ dir \in DirSeeds
    /\ handles = <<>>
    /\ stores = <<>>
    /\ phase = "start"

Startup ==
    /\ phase = "start"
    /\ \E o \in {openAll(handles, dir, stores, 1)} :
          /\ handles' = o.handles
          /\ stores' = o.stores
    /\ phase' = "running"
    /\ UNCHANGED <<dir, storeVars, concVars>>

\* case "create": comCreate -> createStore; stores = append(stores, ...)
Create(storename) ==
    /\ phase = "running"
    /\ Len(stores) < MaxStores
    /\ \E o \in {openBoth(handles, dir, storename, TRUE)} :
          /\ handles' = o.handles
          /\ dir' = o.dir
          /\ stores' = Append(stores, [name |-> storename, nodestore |-> o.nodestore,
                                       freestore |-> o.freestore])
    /\ UNCHANGED <<phase, storeVars, concVars>>

Exit ==
    /\ phase = "running"
    /\ \E fails \in [1 .. Len(stores) -> BOOLEAN] :
          handles' = closeAll(handles, dir, stores, 1, fails)
    /\ phase' = "exited"
    /\ UNCHANGED <<dir, stores, storeVars, concVars>>

NextCli ==
    \/ Startup
    \/ \E i \in 1 .. Len(Names) : Create(Names[i])
    \/ Exit

SpecCli == InitCli /\ [][NextCli]_vars

\* =====================================================================
\* Claims
\* =====================================================================
IsInsert(i) == hist[i].op = "insert"
IsDelete(i) == hist[i].op = "delete"
Last == hist[Len(hist)]

\* The size of nodestore after the i-th command.
SizeAfter(i) == IF i < Len(hist) THEN hist[i + 1].size ELSE nodestore.size

\* The node stored in slot i of f, read off the bytes of the file.
SlotNode(f, i) ==
    [ID |-> ByteAt(f, i * nodeSize) + ByteBase * ByteAt(f, i * nodeSize + 1)
              + ByteBase * ByteBase * ByteAt(f, i * nodeSize + 2)
              + ByteBase * ByteBase * ByteBase * ByteAt(f, i * nodeSize + 3),
     Type |-> 0,
     InUse |-> ByteAt(f, i * nodeSize + 4),
     Value |-> [j \in 1 .. ValueSize |-> ByteAt(f, i * nodeSize + 7 + j)]]

\* hist[i..j] is a run of deletes of distinct occupied in-range IDs that
\* starts with the free list empty.
DeleteRun(i, j) ==
    /\ i <= j
    /\ hist[i].head = Sentinel
    /\ \A m \in i .. j : IsDelete(m) /\ ~hist[m].err /\ hist[m].inuse = 1
    /\ \A m, n \in i .. j : m # n => hist[m].id # hist[n].id

\* C1: LIFO reuse. With the free list empty, after deleting n distinct
\* occupied in-range IDs a1..an, the next n inserts are assigned an..a1 in
\* that order, and the (n+1)-th insert appends a new slot.
C1_LifoReuse ==
    \A i, j \in 1 .. Len(hist) :
        DeleteRun(i, j) =>
            \A k \in (j + 1) .. Len(hist) :
                ((\A m \in (j + 1) .. k : IsInsert(m)) /\ k - j <= (j - i + 1) + 1) =>
                    /\ ~hist[k].err
                    /\ IF k - j <= j - i + 1
                       THEN hist[k].id = hist[j - (k - j) + 1].id
                       ELSE ~hist[k].reuse /\ SizeAfter(k) = hist[k].size + nodeSize

\* C2: whenever insert reads bytes [8:12] of the slot the free-list head
\* names, that slot has in_use = 0.
C2_NeverLinkFromInUse ==
    \A i \in 1 .. Len(hist) :
        (IsInsert(i) /\ hist[i].reuse /\ ~hist[i].err) => hist[i].inuse = 0

\* The commands of the end-to-end scenario, in order.
ScenarioRun ==
    /\ Len(hist) = 4
    /\ IsInsert(1) /\ hist[1].value = alice
    /\ IsInsert(2) /\ hist[2].value = bob
    /\ IsDelete(3) /\ hist[3].id = 0
    /\ IsInsert(4) /\ hist[4].value = carol

\* C3: on a fresh store, insert alice gets ID 0, insert bob ID 1, delete 0,
\* insert carol gets ID 0 again with the file still two slots long, and the
\* occupied records of a scan are (0, carol), (1, bob) in ascending ID order.
C3_EndToEnd ==
    ScenarioRun =>
        /\ \A i \in 1 .. 4 : ~hist[i].err
        /\ hist[1].id = 0 /\ hist[2].id = 1 /\ hist[4].id = 0
        /\ nodestore.size = 2 * nodeSize
        /\ Occupied(readStore(nodestore)) = <<NewNode(0, carol), NewNode(1, bob)>>
        /\ (scan.valid => Occupied(scan.nodes) = <<NewNode(0, carol), NewNode(1, bob)>>)

C3_ScenarioScanned == ScenarioRun /\ scan.valid

\* C4: every occupied slot at index i holds id = i, and right after an
\* insert of v that was assigned ID k, read(k) gives id k, in_use 1 and
\* the payload that encodes v.
C4_OffsetInvariant ==
    /\ \A i \in 0 .. (SlotCount(nodestore) - 1) :
          SlotNode(nodestore, i).InUse = 1 => SlotNode(nodestore, i).ID = i
    /\ (Len(hist) > 0 /\ IsInsert(Len(hist)) /\ ~Last.err) =>
          readNode(nodestore, Last.id) = [err |-> FALSE, node |-> NewNode(Last.id, Last.value)]

\* C5: right after delete(k), the slot k is not among the occupied records
\* of a scan, and read(k) succeeds and reports in_use = 0.
C5_DeleteThenRead ==
    (Len(hist) > 0 /\ IsDelete(Len(hist)) /\ ~Last.err) =>
        /\ ~readNode(nodestore, Last.id).err
        /\ readNode(nodestore, Last.id).node.InUse = 0
        /\ LET nodes == readStore(nodestore)
           IN /\ Len(nodes) > Last.id
              /\ nodes[Last.id + 1].InUse # 1
              /\ Len(Occupied(nodes)) = Cardinality({i \in 1 .. Len(nodes) : i # Last.id + 1 /\ nodes[i].InUse = 1})
        /\ (scan.valid => scan.nodes = readStore(nodestore))

C5_DeletedOccupiedScanned ==
    /\ Len(hist) > 1 /\ IsDelete(Len(hist)) /\ Last.inuse = 1
    /\ scan.valid /\ Len(Occupied(scan.nodes)) > 0

C5_DeletedBeyondEnd ==
    /\ Len(hist) > 0 /\ IsDelete(Len(hist)) /\ Last.id * nodeSize > Last.size
    /\ scan.valid

NoDeleteYet == \A i \in 1 .. Len(hist) : IsInsert(i)

\* C6: while no delete has run on a store whose head file is shorter than
\* 4 bytes, head() is the sentinel and every insert appended: it did not
\* fail, and its ID is the slot count it found.
C6_EmptyListNeverError ==
    NoDeleteYet =>
        /\ freestore.size < 4
        /\ getFree(freestore) = Sentinel
        /\ \A i \in 1 .. Len(hist) :
              /\ ~hist[i].err /\ ~hist[i].reuse
              /\ hist[i].head = Sentinel
              /\ hist[i].id = hist[i].size \div nodeSize
              /\ SizeAfter(i) = hist[i].size + nodeSize

C6_ShortHeadAppended ==
    /\ NoDeleteYet /\ Len(hist) >= 3
    /\ freestore = ShortHead

\* C7: the size of nodestore is a multiple of nodeSize; an appending
\* insert grows it by exactly nodeSize, a reusing insert leaves it as is.
C7_SlotWidth ==
    /\ nodestore.size % nodeSize = 0
    /\ \A i \in 1 .. Len(hist) :
          (IsInsert(i) /\ ~hist[i].err) =>
              SizeAfter(i) = IF hist[i].reuse THEN hist[i].size ELSE hist[i].size + nodeSize

C7_AppendAndReuse ==
    /\ \E i \in 1 .. Len(hist) : IsInsert(i) /\ hist[i].reuse /\ ~hist[i].err
    /\ \E i \in 1 .. Len(hist) : IsInsert(i) /\ ~hist[i].reuse /\ hist[i].size > 0
    /\ \E i \in 1 .. Len(hist) : IsDelete(i) /\ hist[i].id * nodeSize > hist[i].size

\* What scan() has to return for file f: the slots 0 .. size/nodeSize - 1.
ScanOf(f) == [i \in 1 .. (f.size \div nodeSize) |-> SlotNode(f, i - 1)]

ScanState ==
    /\ readStore(nodestore) = ScanOf(nodestore)
    /\ (nodestore.size = 0 => readStore(nodestore) = <<>>)
    /\ (scan.valid => scan.nodes = ScanOf(nodestore))

ScanStep ==
    (scan'.valid /\ UNCHANGED hist) =>
        /\ UNCHANGED <<nodestore, freestore>>
        /\ (scan.valid => scan'.nodes = scan.nodes)

\* C10: scan() returns the slots 0 .. slot_count-1 in that order, each once,
\* ends at the first short read without an error, is empty on an empty
\* store, changes neither file, and a second scan with no write in between
\* returns the same sequence.
C10_Scan == []ScanState /\ [][ScanStep]_vars

C10_TornScanned ==
    /\ scan.valid /\ nodestore.size % nodeSize # 0 /\ Len(scan.nodes) >= 2
    /\ Len(hist) > 0

\* C8: when the program has exited, each of the two handles held in every
\* Store value has been closed exactly once.
C8_ClosedExactlyOnce ==
    phase = "exited" =>
        \A i \in 1 .. Len(stores) :
            /\ handles[stores[i].nodestore].closes = 1
            /\ handles[stores[i].freestore].closes = 1

\* The slots from the free-list head on, following the links, up to the
\* sentinel, a slot outside the file or a slot seen before.
RECURSIVE ChainFrom(_, _, _)
ChainFrom(f, h, seen) ==
    IF h = Sentinel \/ h >= SlotCount(f) \/ h \in seen THEN seen
    ELSE ChainFrom(f, SlotNode(f, h).Value[1] + ByteBase * SlotNode(f, h).Value[2]
                        + ByteBase * ByteBase * SlotNode(f, h).Value[3]
                        + ByteBase * ByteBase * ByteBase * SlotNode(f, h).Value[4],
                   seen \cup {h})

OnFreeList == ChainFrom(nodestore, getFree(freestore), {})

FreeSlots == {i \in 0 .. (SlotCount(nodestore) - 1) : SlotNode(nodestore, i).InUse = 0}

\* Free slots that are on no list, and in-use slots that are on the list.
Leaked == FreeSlots \ OnFreeList
InUseOnList == OnFreeList \ FreeSlots

AllDone == pc # <<>> /\ \A p \in Procs : pc[p] = "done"

\* Both commands read their input (the head, the size) before either wrote.
BothAppendAtSameOffset ==
    /\ \A p \in Procs : loc[p].op = "insert" /\ ~loc[p].err /\ loc[p].freeID = Sentinel
    /\ loc[1].offset = loc[2].offset

BothDeleteFromSameHead ==
    /\ \A p \in Procs : loc[p].op = "delete"
    /\ loc[1].id # loc[2].id
    /\ loc[1].freeID = Sentinel /\ loc[2].freeID = Sentinel

InsertAndDeleteFromSameHead(p, q) ==
    /\ loc[p].op = "insert" /\ ~loc[p].err /\ loc[p].freeID # Sentinel
    /\ loc[q].op = "delete" /\ loc[q].id # loc[p].freeID
    /\ loc[q].freeID = loc[p].freeID

\* C9: interleaved at their file reads and writes, two commands lose a
\* record or damage the free list.  Two appending inserts that both read
\* the size before either wrote get the same ID and one record replaces
\* the other; two deletes that both read the (empty) head before either
\* set it leave one freed slot on no list; an insert and a delete that
\* both read the same head leave the deleted slot on no list or an in-use
\* slot on the list.
C9_NotAtomic ==
    AllDone =>
        /\ BothAppendAtSameOffset =>
              /\ loc[1].id = loc[2].id
              /\ nodestore.size = loc[1].offset + nodeSize
              /\ SlotNode(nodestore, loc[1].id).Value \in {FixedValue(alice), FixedValue(bob)}
        /\ BothDeleteFromSameHead =>
              /\ {loc[1].id, loc[2].id} \subseteq FreeSlots
              /\ Cardinality(Leaked \cap {loc[1].id, loc[2].id}) = 1
        /\ \A p, q \in Procs :
              InsertAndDeleteFromSameHead(p, q) =>
                  loc[q].id \in Leaked \/ loc[p].freeID \in InUseOnList

C9_LostInsert ==
    /\ AllDone /\ BothAppendAtSameOffset
    /\ loc[1].id = loc[2].id
    /\ Cardinality({i \in 0 .. (SlotCount(nodestore) - 1) :
                       SlotNode(nodestore, i).Value \in {FixedValue(alice), FixedValue(bob)}})
         = loc[1].offset \div nodeSize + 1

C9_LeakedSlot == AllDone /\ BothDeleteFromSameHead /\ Leaked # {}

C9_InUseOnList == AllDone /\ InUseOnList # {} /\ \E p, q \in Procs : InsertAndDeleteFromSameHead(p, q)

\* C11: readNode(id) succeeds exactly when slot id lies wholly inside the
\* file (id < size / nodeSize) and then returns that slot decoded; otherwise
\* (the read runs past end of file or is short) it returns an error and the
\* zero Node; in both cases neither file is modified.
ReadState ==
    got.op = "readNode" =>
        /\ got.err <=> ~(got.id < SlotCount(nodestore))
        /\ got.err => got.node = ZeroNode
        /\ ~got.err => got.node = SlotNode(nodestore, got.id)

ReadStep == got'.op = "readNode" => UNCHANGED <<nodestore, freestore>>

C11_Read == []ReadState /\ [][ReadStep]_vars

\* A read of the slot that a torn write left short, and it failed.
C11_ShortReadFailed ==
    /\ got.op = "readNode" /\ got.err
    /\ nodestore.size % nodeSize # 0
    /\ got.id = SlotCount(nodestore)

\* C12: an append (insert with the free list empty) on a store whose size is
\* not a multiple of nodeSize returns an error and writes nothing.
C12_UnalignedAppendFails ==
    \A i \in 1 .. Len(hist) :
        (IsInsert(i) /\ ~hist[i].reuse /\ hist[i].size % nodeSize # 0) =>
            (hist[i].err /\ SizeAfter(i) = hist[i].size)

\* C13: decoding the nodeSize bytes the encoder produced gives back the same
\* id, in_use and 64 payload bytes, and the three padding bytes are zero; a
\* value whose JSON text fits the payload is stored as that text followed by
\* zeros, a longer one as the first 64 bytes of its text.
C13_Codec ==
    got.op = "codec" =>
        /\ Len(got.buf) = nodeSize
        /\ got.back.ID = got.node.ID
        /\ got.back.InUse = got.node.InUse
        /\ got.back.Value = got.node.Value
        /\ \A i \in 6 .. 8 : got.buf[i] = 0
        /\ Len(got.node.Value) = ValueSize
        /\ \A i \in 1 .. ValueSize :
              got.buf[8 + i] = IF i <= Len(got.json) THEN got.json[i] ELSE 0

\* An occupied node with the all-ones ID and a value cut at 64 bytes came
\* back as it went in.
C13_LongValueCut ==
    /\ got.op = "codec"
    /\ Len(got.json) > ValueSize
    /\ got.node.ID = Sentinel /\ got.node.InUse = 1
    /\ got.back = got.node

\* The free-list link stored in slot i of f: payload bytes [0:4].
SlotLink(f, i) ==
    SlotNode(f, i).Value[1] + ByteBase * SlotNode(f, i).Value[2]
        + ByteBase * ByteBase * SlotNode(f, i).Value[3]
        + ByteBase * ByteBase * ByteBase * SlotNode(f, i).Value[4]

\* The slot at the ID of the running delete is written as free, linked to
\* the head the delete found.
DeletedSlotWritten ==
    /\ loc[1].id < SlotCount(nodestore)
    /\ SlotNode(nodestore, loc[1].id).ID = loc[1].id
    /\ SlotNode(nodestore, loc[1].id).InUse = 0
    /\ SlotLink(nodestore, loc[1].id) = Last.head

\* C14: delete(id) first writes slot id as free (id field id, in_use 0, link
\* = the head read at the start), and only then sets the head to id: until
\* the slot is written the head is the one found, and after a delete(id)
\* that found head h the head is id and the link in slot id is h.
DeleteState ==
    loc[1].op = "delete" =>
        /\ pc[1] \in {"start", "dwrite"} => getFree(freestore) = Last.head
        /\ pc[1] = "dsethead" => (DeletedSlotWritten /\ getFree(freestore) = Last.head)
        /\ pc[1] = "done" => (DeletedSlotWritten /\ getFree(freestore) = loc[1].id)

DeleteStep ==
    (loc[1].op = "delete" /\ freestore' # freestore) =>
        (DeletedSlotWritten /\ UNCHANGED nodestore /\ getFree(freestore') = loc[1].id)

C14_DeleteOrder == []DeleteState /\ [][DeleteStep]_vars

\* A delete that found a non-empty list has written its slot and not yet
\* set the head.
C14_SlotWrittenHeadPending ==
    /\ loc[1].op = "delete" /\ pc[1] = "dsethead"
    /\ Last.head # Sentinel /\ Last.head # loc[1].id
    /\ DeletedSlotWritten

\* Where the chain from head h stops: at the sentinel, at an ID outside the
\* file, or at a slot it has passed before.
RECURSIVE ChainEnd(_, _, _)
ChainEnd(f, h, seen) ==
    IF h = Sentinel THEN "sentinel"
    ELSE IF h >= SlotCount(f) THEN "outside"
    ELSE IF h \in seen THEN "cycle"
    ELSE ChainEnd(f, SlotLink(f, h), seen \cup {h})

\* Every delete begun so far found its slot inside the file and occupied.
DeletesOfOccupied == \A i \in 1 .. Len(hist) : IsDelete(i) => hist[i].inuse = 1

\* C17: in a run of one command loop where every delete targets an occupied
\* in-range ID, at every point between two file operations the head is the
\* sentinel or names a free slot inside the file, the chain from the head
\* passes only through free slots and ends at the sentinel, and the only
\* free slot that may be on no list is the one the running command works on.
C17_SafeAtEveryStep ==
    DeletesOfOccupied =>
        /\ \/ getFree(freestore) = Sentinel
           \/ /\ getFree(freestore) < SlotCount(nodestore)
              /\ SlotNode(nodestore, getFree(freestore)).InUse = 0
        /\ InUseOnList = {}
        /\ ChainEnd(nodestore, getFree(freestore), {}) = "sentinel"
        /\ Leaked \subseteq {loc[1].id}
        /\ pc[1] \in {"start", "done"} => Leaked = {}

\* A reusing insert stopped between its head write and its slot write: the
\* slot is free and on no list, the list goes on behind it.
C17_ReuseBetweenWrites ==
    /\ DeletesOfOccupied
    /\ loc[1].op = "insert" /\ pc[1] = "write"
    /\ Leaked = {loc[1].id}
    /\ getFree(freestore) # Sentinel

\* The inserts whose record no later delete named.
LiveInserts ==
    {i \in 1 .. Len(hist) :
        /\ IsInsert(i) /\ ~hist[i].err
        /\ \A j \in (i + 1) .. Len(hist) : ~(IsDelete(j) /\ hist[j].id = hist[i].id)}

OccupiedSlots == {k \in 0 .. (SlotCount(nodestore) - 1) : SlotNode(nodestore, k).InUse = 1}

\* C15: no insert overwrites a live record, whatever the deletes were: every
\* inserted record that no delete has named since is still in its slot with
\* its payload, and there are as many occupied slots as such records.
C15_NoLiveOverwrite ==
    /\ \A i \in LiveInserts :
          /\ hist[i].id < SlotCount(nodestore)
          /\ SlotNode(nodestore, hist[i].id) = NewNode(hist[i].id, hist[i].value)
    /\ Cardinality(OccupiedSlots) = Cardinality(LiveInserts)

\* C16: with no command in progress, the chain from the free-list head ends
\* at the sentinel (no cycle, no link out of the file) and passes through
\* exactly the slots of the file with in_use = 0, whatever IDs the deletes
\* were given.
C16_NoLeak ==
    /\ ChainEnd(nodestore, getFree(freestore), {}) = "sentinel"
    /\ OnFreeList = FreeSlots

\* The last command is a delete whose slot write failed.
SlotWriteFailed(h) == h # <<>> /\ h[Len(h)].op = "delete" /\ h[Len(h)].fault = "WriteAt"

\* C18: if the slot write of a delete fails, the delete returns the error
\* and the head file is as it was.
FailedDeleteStep ==
    (Len(hist') = Len(hist) + 1 /\ SlotWriteFailed(hist')) =>
        (hist'[Len(hist')].err /\ freestore' = freestore)

C18_FailedDeleteKeepsHead == [][FailedDeleteStep]_vars

\* A delete of an occupied slot failed in its slot write with the free
\* list non-empty: the head still names the slot it named before.
C18_HeadKept ==
    /\ SlotWriteFailed(hist)
    /\ Last.err /\ Last.inuse = 1
    /\ Last.head # Sentinel /\ Last.head # Last.id
    /\ getFree(freestore) = Last.head

\* The offsets at which the files f and g differ.
DiffBytes(f, g) ==
    {i \in (DOMAIN f.data) \cup (DOMAIN g.data) : ByteAt(f, i) # ByteAt(g, i)}

SlotBytes(id) == (id * nodeSize) .. (id * nodeSize + nodeSize - 1)

\* C19: a successful insert or delete run in the current state changes
\* bytes of the record store only inside the slot at the assigned or
\* deleted ID, which then holds the written node; an insert on the append
\* path leaves the head file as it is.
C19_Frame ==
    /\ \A w \in {writeNode(nodestore, freestore, alice)} :
          ~w.err =>
              /\ DiffBytes(nodestore, w.nodestore) \subseteq SlotBytes(w.id)
              /\ SlotNode(w.nodestore, w.id) = NewNode(w.id, alice)
              /\ ~w.reuse => w.freestore = freestore
    /\ \A id \in WideIds :
          \A d \in {deleteNode(nodestore, freestore, id)} :
              /\ DiffBytes(nodestore, d.nodestore) \subseteq SlotBytes(id)
              /\ SlotNode(d.nodestore, id) = FreeNode(id, d.currentHead)

\* The free-list head as read after the i-th command.
HeadAfter(i) == IF i < Len(hist) THEN hist[i + 1].head ELSE getFree(freestore)

\* C20: after a delete(id), for any uint32 id, the free list is not empty,
\* and an insert that comes next reuses id.
C20_DeleteThenReuse ==
    \A i \in 1 .. Len(hist) :
        (IsDelete(i) /\ ~hist[i].err) =>
            /\ HeadAfter(i) # Sentinel
            /\ (i < Len(hist) /\ IsInsert(i + 1)) =>
                  (~hist[i + 1].err /\ hist[i + 1].reuse /\ hist[i + 1].id = hist[i].id)

====
